---- MODULE Spec2Model ----
(***************************************************************************)
(* A model of the five command-line scripts of terminal-aws-cli:           *)
(*   aws-ec2-list.py, aws-list-profiles.py, aws-service-cost-analysis.py,  *)
(*   aws-ec2-creator.py (aws-billing-info.py has no claim of its own).     *)
(* Every run executes one script; `script` says which.  The SDK is the     *)
(* environment: each SDK call either returns or raises a ClientError, and  *)
(* each prompt reads one line drawn from a small set of lines.             *)
(* Text is modelled as a sequence of one-character strings so that         *)
(* strip(), lower(), int() and split(',') are computed, not assumed.       *)
(* Costs are integers (cents); float rounding error is not modelled.       *)
(***************************************************************************)
EXTENDS Integers, Sequences, FiniteSets, TLC

VARIABLES
    script,      \* which script this run executes
    status,      \* "running" | "exited" | "uncaught" (a traceback)
    exitCode,    \* the process exit status once status # "running", else -1
    exc,         \* the uncaught exception's class, "none" otherwise
    \* ---- aws-ec2-list.py
    lpc,         \* position in the script
    profiles,    \* session.available_profiles
    todo,        \* profiles manage_instances is still to be called for
    profile,     \* the profile manage_instances is running for
    managed,     \* profiles manage_instances was called for, in order
    choice,      \* the selection typed at the menu, stripped and lower-cased
    req,         \* the request the action loop is handling
    \* ---- aws-list-profiles.py
    ppc,         \* position in the script
    config,      \* ~/.aws/config: a set of sections [name, region]
    credentials, \* ~/.aws/credentials: a set of section names
    cfgLeft,     \* config sections the first loop has yet to visit
    credLeft,    \* credentials sections the second loop has yet to visit
    lp_profiles, \* the list get_aws_profiles builds (`profiles` in the source)
    stsCalls,    \* the profiles get_account_id was called for, in order
    \* ---- aws-service-cost-analysis.py
    apc,                \* position in analyze_costs
    days,               \* the --days argument
    results,            \* the current period's ResultsByTime, while it is read
    total_cost,
    services,           \* the dict, as its items in insertion order
    sorted_services,
    table_data,         \* the "% of Total" column, in hundredths of a percent
    current_month_cost, \* [bound |-> FALSE] until line 110 assigns it
    prev_period_cost,
    prev_period_total,  \* the previous period's response summed as lines 66-71 sum the current one
    trend,              \* insight 10 as printed: [printed, label, shown]
    \* ---- aws-ec2-creator.py
    cpc,               \* position in main
    cprofiles,         \* session.available_profiles (`profiles` in the source)
    cprofile,          \* main's `profile`, "none" until selected
    region,            \* main's `region`, "none" until selected
    groups,            \* the security groups the account holds: [name, ingress, egress]
    sg_local,          \* create_security_group's own security_group_id (0: none)
    security_group_id, \* main's security_group_id (0: none)
    retries,           \* "try again" answers of "y" so far
    key_pairs,         \* what describe_key_pairs returned
    key_name,          \* main's key_name, "none" until resolved
    key_source,        \* "none" | "existing" | "created"
    files,             \* the working directory: file name -> [exists, content, mode]
    files0,            \* the working directory when the run began
    instance_calls     \* create_instances calls issued so far

listVars == <<lpc, profiles, todo, profile, managed, choice, req>>
profVars == <<ppc, config, credentials, cfgLeft, credLeft, lp_profiles, stsCalls>>
costVars == <<apc, days, results, total_cost, services, sorted_services, table_data,
              current_month_cost, prev_period_cost, prev_period_total, trend>>
creatorVars == <<cpc, cprofiles, cprofile, region, groups, sg_local,
                 security_group_id, retries, key_pairs, key_name, key_source,
                 files, files0, instance_calls>>
sharedVars == <<script, status, exitCode, exc>>

----------------------------------------------------------------------------
(* Bounds *)
MaxProfiles == 2
\* time buckets in one Cost Explorer response, and groups in all its buckets
MaxBuckets == 2
MaxRecords == 2
\* "y" answers to "try again"
MaxRetries == 1

----------------------------------------------------------------------------
(* Text *)

UpperChars == <<"A","B","C","D","E","F","G","H","I","J","K","L","M",
                "N","O","P","Q","R","S","T","U","V","W","X","Y","Z">>
LowerChars == <<"a","b","c","d","e","f","g","h","i","j","k","l","m",
                "n","o","p","q","r","s","t","u","v","w","x","y","z">>
DigitChars == <<"0","1","2","3","4","5","6","7","8","9">>
White == {" ", "\t"}

LowerChar(c) ==
    IF \E i \in 1..26 : UpperChars[i] = c
    THEN LowerChars[CHOOSE i \in 1..26 : UpperChars[i] = c]
    ELSE c

\* str.lower()
Lower(s) == [i \in 1..Len(s) |-> LowerChar(s[i])]

\* str.strip(): drop the whitespace at both ends
Strip(s) ==
    LET inner == {i \in 1..Len(s) : s[i] \notin White}
    IN  IF inner = {} THEN <<>>
        ELSE LET lo == CHOOSE i \in inner : \A j \in inner : i <= j
                 hi == CHOOSE i \in inner : \A j \in inner : j <= i
             IN  SubSeq(s, lo, hi)

IsDigit(c) == \E i \in 1..10 : DigitChars[i] = c
DigitVal(c) == (CHOOSE i \in 1..10 : DigitChars[i] = c) - 1

RECURSIVE DigitsVal(_)
DigitsVal(s) ==
    IF s = <<>> THEN 0
    ELSE DigitsVal(SubSeq(s, 1, Len(s) - 1)) * 10 + DigitVal(s[Len(s)])

\* int(text): whitespace at both ends is ignored, then an optional sign and
\* at least one digit; anything else raises ValueError.
IntOk(text) ==
    LET s == Strip(text)
        d == IF s # <<>> /\ s[1] \in {"+", "-"} THEN Tail(s) ELSE s
    IN  d # <<>> /\ \A i \in 1..Len(d) : IsDigit(d[i])

IntVal(text) ==
    LET s == Strip(text)
        neg == s # <<>> /\ s[1] = "-"
        d == IF s # <<>> /\ s[1] \in {"+", "-"} THEN Tail(s) ELSE s
    IN  IF neg THEN 0 - DigitsVal(d) ELSE DigitsVal(d)

\* The decimal text of a small integer (used to build the lines a user types).
Render(k) ==
    LET a == IF k < 0 THEN 0 - k ELSE k
        d == IF a < 10 THEN <<DigitChars[a + 1]>>
             ELSE <<DigitChars[(a \div 10) + 1], DigitChars[(a % 10) + 1]>>
    IN  IF k < 0 THEN <<"-">> \o d ELSE d

\* seq[idx] of a Python list: a negative index counts from the end.
PyIndexOk(seq, idx) == (0 - Len(seq)) <= idx /\ idx < Len(seq)
PyIndex(seq, idx) == IF idx >= 0 THEN seq[idx + 1] ELSE seq[Len(seq) + idx + 1]

----------------------------------------------------------------------------
(* Process exit, shared by the scripts *)

Running == status = "running"

\* the script returns from its entry point, or calls sys.exit(code)
Exit(code) ==
    /\ status' = "exited"
    /\ exitCode' = code
    /\ exc' = "none"
    /\ script' = script

\* an exception no handler catches: a traceback, and exit status 1
Uncaught(e) ==
    /\ status' = "uncaught"
    /\ exitCode' = 1
    /\ exc' = e
    /\ script' = script

----------------------------------------------------------------------------
(* aws-ec2-list.py *)

ProfileNames == <<"p1", "p2", "p3", "p4">>
AvailableProfiles == {SubSeq(ProfileNames, 1, n) : n \in 0..MaxProfiles}

sAll       == <<"a","l","l">>
sQ         == <<"q">>
sY         == <<"y">>
sStart     == <<"s","t","a","r","t">>
sStop      == <<"s","t","o","p">>
sReboot    == <<"r","e","b","o","o","t">>
sTerminate == <<"t","e","r","m","i","n","a","t","e">>
Verbs == {sStart, sStop, sReboot, sTerminate}

\* the lines a user may type at each prompt
ChoiceInputs ==
    {sAll, <<"A","l","l"," ">>, <<>>, <<"x">>, <<"1",".","0">>}
    \cup {Render(k) : k \in (0 - (MaxProfiles + 1))..(MaxProfiles + 1)}
    \cup {<<" ">> \o Render(1)}
ActionInputs ==
    {sStart, sStop, sReboot, sTerminate, sQ,
     <<" ","S","t","o","p"," ">>, <<"T","E","R","M","I","N","A","T","E">>,
     <<"Q">>, <<>>, <<"s","t","a","r","t","s">>, <<"k","i","l","l">>, sY}
IdInputs == {<<"i","-","1">>, <<" ","i","-","2"," ">>, <<>>}
ConfirmInputs ==
    {sY, <<"Y">>, <<" ","y"," ">>, <<"n">>, <<"N">>, <<>>,
     <<"y","e","s">>, <<"y","y">>}

NoRequest ==
    [rawAction |-> <<>>, action |-> <<>>, rawId |-> <<>>, instance_id |-> <<>>,
     asked |-> FALSE, rawConfirm |-> <<>>, calls |-> <<>>]

\* one EC2 API request issued through the SDK
ApiCall(kind, prof, id) == [kind |-> kind, profile |-> prof, id |-> id]

start_instance(prof, id)     == <<ApiCall("start_instances", prof, id)>>
stop_instance(prof, id)      == <<ApiCall("stop_instances", prof, id)>>
reboot_instance(prof, id)    == <<ApiCall("reboot_instances", prof, id)>>
terminate_instance(prof, id) == <<ApiCall("terminate_instances", prof, id)>>

\* the confirmation test of the terminate branch
Confirmed_NotNo(raw) == Lower(Strip(raw)) # <<"n">>
Confirmed(raw) == Lower(Strip(raw)) = sY

\* the calls the if/elif chain makes once the instance ID was read
Dispatch_StopTerminates(action, prof, id) ==
    IF action = sStart THEN start_instance(prof, id)
    ELSE IF action = sStop THEN terminate_instance(prof, id)
    ELSE IF action = sReboot THEN reboot_instance(prof, id)
    ELSE <<>>
Dispatch(action, prof, id) ==
    IF action = sStart THEN start_instance(prof, id)
    ELSE IF action = sStop THEN stop_instance(prof, id)
    ELSE IF action = sReboot THEN reboot_instance(prof, id)
    ELSE <<>>

ListInit ==
    /\ script = "ec2-list"
    /\ lpc = "menu"
    /\ profiles \in AvailableProfiles
    /\ todo = <<>>
    /\ profile = "none"
    /\ managed = <<>>
    /\ choice = <<>>
    /\ req = NoRequest

ListIdle ==
    /\ lpc = "idle"
    /\ profiles = <<>>
    /\ todo = <<>>
    /\ profile = "none"
    /\ managed = <<>>
    /\ choice = <<>>
    /\ req = NoRequest

\* __main__: the profile menu
ReadChoice(raw) ==
    LET typed == Lower(Strip(raw)) IN
    /\ script = "ec2-list" /\ Running /\ lpc = "menu"
    /\ IF typed = sAll
       THEN \* manage_all_profiles()
            /\ todo' = profiles
            /\ lpc' = "next"
            /\ UNCHANGED sharedVars
       ELSE IF IntOk(typed) /\ PyIndexOk(profiles, IntVal(typed) - 1)
       THEN /\ todo' = <<PyIndex(profiles, IntVal(typed) - 1)>>
            /\ lpc' = "next"
            /\ UNCHANGED sharedVars
       ELSE \* except (ValueError, IndexError): "Invalid selection. Exiting..."
            /\ todo' = <<>>
            /\ lpc' = "invalid"
            /\ Exit(0)
    /\ choice' = typed
    /\ UNCHANGED <<profiles, profile, managed, req>>
    /\ UNCHANGED <<profVars, costVars, creatorVars>>

\* manage_instances(profile) up to the action loop; list_ec2_instances
\* returns [] on a ClientError
ManageInstances(found) ==
    /\ script = "ec2-list" /\ Running /\ lpc = "next" /\ todo # <<>>
    /\ profile' = Head(todo)
    /\ todo' = Tail(todo)
    /\ managed' = Append(managed, Head(todo))
    /\ req' = NoRequest
    /\ lpc' = IF found THEN "action" ELSE "next"
    /\ UNCHANGED <<profiles, choice, sharedVars>>
    /\ UNCHANGED <<profVars, costVars, creatorVars>>

\* every selected profile was managed: the script ends
ListDone ==
    /\ script = "ec2-list" /\ Running /\ lpc = "next" /\ todo = <<>>
    /\ lpc' = "done"
    /\ Exit(0)
    /\ UNCHANGED <<profiles, todo, profile, managed, choice, req>>
    /\ UNCHANGED <<profVars, costVars, creatorVars>>

\* the action prompt
ReadAction(raw) ==
    LET action == Lower(Strip(raw)) IN
    /\ script = "ec2-list" /\ Running /\ lpc = "action"
    /\ req' = [NoRequest EXCEPT !.rawAction = raw, !.action = action]
    /\ lpc' = IF action = sQ THEN "next"
              ELSE IF action \in Verbs THEN "id"
              ELSE "action"
    /\ UNCHANGED <<profiles, todo, profile, managed, choice, sharedVars>>
    /\ UNCHANGED <<profVars, costVars, creatorVars>>

\* the instance ID prompt and the start/stop/reboot branches
ReadInstanceId(raw) ==
    LET id == Strip(raw) IN
    /\ script = "ec2-list" /\ Running /\ lpc = "id"
    /\ req' = [req EXCEPT !.rawId = raw, !.instance_id = id,
                          !.calls = Dispatch(req.action, profile, id)]
    /\ lpc' = IF req.action = sTerminate THEN "confirm" ELSE "action"
    /\ UNCHANGED <<profiles, todo, profile, managed, choice, sharedVars>>
    /\ UNCHANGED <<profVars, costVars, creatorVars>>

\* the terminate branch: the confirmation prompt
ReadConfirm(raw) ==
    /\ script = "ec2-list" /\ Running /\ lpc = "confirm"
    /\ req' = [req EXCEPT !.asked = TRUE, !.rawConfirm = raw,
                          !.calls = IF Confirmed(raw)
                                    THEN terminate_instance(profile, req.instance_id)
                                    ELSE <<>>]
    /\ lpc' = "action"
    /\ UNCHANGED <<profiles, todo, profile, managed, choice, sharedVars>>
    /\ UNCHANGED <<profVars, costVars, creatorVars>>

ListNext ==
    \/ lpc = "menu" /\ \E raw \in ChoiceInputs : ReadChoice(raw)
    \/ lpc = "next" /\ \E found \in BOOLEAN : ManageInstances(found)
    \/ ListDone
    \/ lpc = "action" /\ \E raw \in ActionInputs : ReadAction(raw)
    \/ lpc = "id" /\ \E raw \in IdInputs : ReadInstanceId(raw)
    \/ lpc = "confirm" /\ \E raw \in ConfirmInputs : ReadConfirm(raw)

----------------------------------------------------------------------------
(* aws-list-profiles.py *)

sProfilePrefix == <<"p","r","o","f","i","l","e"," ">>
sDefault == <<"d","e","f","a","u","l","t">>
sDev == <<"d","e","v">>
sOps == <<"o","p","s">>

NotSet == "Not set"
NoKey == "<no region key>"
Regions == {"us-east-1", "eu-west-1"}

\* the section names the two files may hold
ConfigSectionNames == {sProfilePrefix \o sDev, sProfilePrefix \o sDefault, sDefault, sDev}
CredentialSectionNames == {sDev, sOps, sDefault}

ConfigFiles ==
    UNION {{ {[name |-> n, region |-> f[n]] : n \in names} :
               f \in [names -> Regions \cup {NoKey}] } :
           names \in SUBSET ConfigSectionNames}

\* section.startswith("profile ")
StartsWithProfile(section) ==
    /\ Len(section) >= Len(sProfilePrefix)
    /\ SubSeq(section, 1, Len(sProfilePrefix)) = sProfilePrefix

\* section[8:]
RemovePrefix(section) == SubSeq(section, 9, Len(section))

\* `name in config` and config[name].get("region", default)
HasSection(cfg, name) == \E s \in cfg : s.name = name
SectionOf(cfg, name) == CHOOSE s \in cfg : s.name = name
GetRegion(sec, default) == IF sec.region = NoKey THEN default ELSE sec.region

\* get_account_id: the account on success, the error text on a ClientError
get_account_id(prof, ok) ==
    IF ok THEN <<"account of", prof>> ELSE <<"Error: ", prof>>

\* next((p for p in profiles if p["Profile"] == profile), None) is not None
Existing_Never(entries, name) == FALSE
Existing(entries, name) == \E i \in 1..Len(entries) : entries[i].Profile = name

ProfilesInit ==
    /\ script = "list-profiles"
    /\ ppc = "config"
    /\ config \in ConfigFiles
    /\ credentials \in SUBSET CredentialSectionNames
    /\ cfgLeft = {s.name : s \in config}
    /\ credLeft = credentials
    /\ lp_profiles = <<>>
    /\ stsCalls = <<>>

ProfilesIdle ==
    /\ ppc = "idle"
    /\ config = {}
    /\ credentials = {}
    /\ cfgLeft = {}
    /\ credLeft = {}
    /\ lp_profiles = <<>>
    /\ stsCalls = <<>>

\* one iteration of `for section in config.sections()`
ConfigSection(section, ok) ==
    /\ script = "list-profiles" /\ Running /\ ppc = "config"
    /\ section \in cfgLeft
    /\ cfgLeft' = cfgLeft \ {section}
    /\ IF StartsWithProfile(section)
       THEN LET profile_name == RemovePrefix(section)
                the_region == GetRegion(SectionOf(config, section), NotSet)
            IN  /\ stsCalls' = Append(stsCalls, profile_name)
                /\ lp_profiles' = Append(lp_profiles,
                       [Profile |-> profile_name, Region |-> the_region,
                        AccountID |-> get_account_id(profile_name, ok)])
       ELSE UNCHANGED <<lp_profiles, stsCalls>>
    /\ UNCHANGED <<ppc, config, credentials, credLeft, sharedVars>>
    /\ UNCHANGED <<listVars, costVars, creatorVars>>

\* the first loop is over
ConfigDone ==
    /\ script = "list-profiles" /\ Running /\ ppc = "config"
    /\ cfgLeft = {}
    /\ ppc' = "credentials"
    /\ UNCHANGED <<config, credentials, cfgLeft, credLeft, lp_profiles, stsCalls, sharedVars>>
    /\ UNCHANGED <<listVars, costVars, creatorVars>>

\* one iteration of `for profile in credentials.sections()`
CredentialsSection(name, ok) ==
    /\ script = "list-profiles" /\ Running /\ ppc = "credentials"
    /\ name \in credLeft
    /\ credLeft' = credLeft \ {name}
    /\ IF ~Existing(lp_profiles, name)
       THEN LET the_region == IF HasSection(config, name)
                          THEN GetRegion(SectionOf(config, name), NotSet)
                          ELSE NotSet
            IN  /\ stsCalls' = Append(stsCalls, name)
                /\ lp_profiles' = Append(lp_profiles,
                       [Profile |-> name, Region |-> the_region,
                        AccountID |-> get_account_id(name, ok)])
       ELSE UNCHANGED <<lp_profiles, stsCalls>>
    /\ UNCHANGED <<ppc, config, credentials, cfgLeft, sharedVars>>
    /\ UNCHANGED <<listVars, costVars, creatorVars>>

\* get_aws_profiles returns; main prints the table or "No AWS profiles found."
ProfilesMain ==
    /\ script = "list-profiles" /\ Running /\ ppc = "credentials"
    /\ credLeft = {}
    /\ ppc' = IF lp_profiles # <<>> THEN "table" ELSE "none found"
    /\ Exit(0)
    /\ UNCHANGED <<config, credentials, cfgLeft, credLeft, lp_profiles, stsCalls>>
    /\ UNCHANGED <<listVars, costVars, creatorVars>>

ProfilesNext ==
    \/ ppc = "config" /\ \E section \in cfgLeft, ok \in BOOLEAN : ConfigSection(section, ok)
    \/ ConfigDone
    \/ ppc = "credentials" /\ \E name \in credLeft, ok \in BOOLEAN : CredentialsSection(name, ok)
    \/ ProfilesMain

----------------------------------------------------------------------------
(* aws-service-cost-analysis.py *)

Abs(x) == IF x < 0 THEN 0 - x ELSE x

\* n/d rounded to the nearest integer, a tie to the even one: what the
\* ":.2f" format does to a value counted in hundredths
RoundDiv(n, d) ==
    LET a == Abs(n)
        b == Abs(d)
        q == a \div b
        r == a % b
        m == IF 2 * r > b \/ (2 * r = b /\ q % 2 = 1) THEN q + 1 ELSE q
    IN  IF (n < 0) # (d < 0) THEN 0 - m ELSE m

ServiceNames == {"EC2", "S3"}
\* UnblendedCost amounts, in cents; credits and refunds are negative
Amounts == {-1, 0, 1, 2}
Groups == [service : ServiceNames, cost : Amounts]
\* the --days values: below and at the threshold of the trend line
DaysValues == {30, 60}
TrendMinDays == 60

SeqsUpTo(S, n) == UNION {[1..k -> S] : k \in 0..n}

\* ResultsByTime: at most k buckets holding at most g groups between them
ResultsByTime[k \in 0..MaxBuckets, g \in 0..MaxRecords] ==
    IF k = 0 THEN {<<>>}
    ELSE {<<>>} \cup
         UNION {{<<b>> \o r : r \in ResultsByTime[k - 1, g - Len(b)]} :
                b \in SeqsUpTo(Groups, g)}

\* what get_cost_and_usage returns: None on a ClientError, else ResultsByTime
NoneResult == [none |-> TRUE, body |-> <<>>]
get_cost_and_usage ==
    {NoneResult} \cup
    {[none |-> FALSE, body |-> r] : r \in ResultsByTime[MaxBuckets, MaxRecords]}
\* what get_cost_forecast returns: None on a ClientError, else the amount
get_cost_forecast ==
    {[none |-> TRUE, amount |-> 0]} \cup {[none |-> FALSE, amount |-> a] : a \in {0, 3}}

\* `if results:` of a list or None
Truthy(r) == ~r.none /\ r.body # <<>>

RECURSIVE Flatten(_)
Flatten(res) == IF res = <<>> THEN <<>> ELSE Head(res) \o Flatten(Tail(res))

\* services[service] = services.get(service, 0) + cost
AddCost(items, g) ==
    IF \E i \in 1..Len(items) : items[i].service = g.service
    THEN [i \in 1..Len(items) |->
            IF items[i].service = g.service
            THEN [service |-> g.service, cost |-> items[i].cost + g.cost]
            ELSE items[i]]
    ELSE Append(items, [service |-> g.service, cost |-> g.cost])

\* the double loop of lines 66-71 over the groups in order
RECURSIVE Accumulate(_, _)
Accumulate(acc, gs) ==
    IF gs = <<>> THEN acc
    ELSE Accumulate([total |-> acc.total + Head(gs).cost,
                     items |-> AddCost(acc.items, Head(gs))],
                    Tail(gs))

\* sorted(..., key=cost, reverse=True): stable, equal costs keep their order
InsertDesc(sorted, x) ==
    LET before == {i \in 1..Len(sorted) : sorted[i].cost >= x.cost}
        k == IF before = {} THEN 0 ELSE CHOOSE i \in before : \A j \in before : j <= i
    IN  SubSeq(sorted, 1, k) \o <<x>> \o SubSeq(sorted, k + 1, Len(sorted))

RECURSIVE SortDesc(_)
SortDesc(items) ==
    IF items = <<>> THEN <<>>
    ELSE InsertDesc(SortDesc(SubSeq(items, 1, Len(items) - 1)), items[Len(items)])

\* f"{(cost/total_cost)*100:.2f}%", in hundredths of a percent
Percent(cost, total) == RoundDiv(cost * 10000, total)

\* sum(first group's amount if the bucket has groups else 0 for each bucket)
RECURSIVE FirstGroupSum(_)
FirstGroupSum(res) ==
    IF res = <<>> THEN 0
    ELSE (IF Head(res) # <<>> THEN Head(res)[1].cost ELSE 0) + FirstGroupSum(Tail(res))

\* line 133: the change as the exact fraction num/den (den > 0)
cost_change_OverCurrent(total, prev) ==
    IF prev > 0 /\ total > 0 THEN [num |-> (total - prev) * 100, den |-> total]
    ELSE [num |-> 0, den |-> 1]
cost_change(total, prev) ==
    IF prev > 0 THEN [num |-> (total - prev) * 100, den |-> prev]
    ELSE [num |-> 0, den |-> 1]

\* line 134: the label and abs(cost_change) to two decimals
TrendLine(change) ==
    [printed |-> TRUE,
     label |-> IF change.num > 0 THEN "Increase" ELSE "Decrease",
     shown |-> RoundDiv(Abs(change.num) * 100, change.den)]

NoTrend == [printed |-> FALSE, label |-> "", shown |-> 0]
Unbound == [bound |-> FALSE, value |-> 0]

CostInit ==
    /\ script = "cost-analysis"
    /\ apc = "current"
    /\ days \in DaysValues
    /\ results = <<>>
    /\ total_cost = 0
    /\ services = <<>>
    /\ sorted_services = <<>>
    /\ table_data = <<>>
    /\ current_month_cost = Unbound
    /\ prev_period_cost = 0
    /\ prev_period_total = 0
    /\ trend = NoTrend

CostIdle ==
    /\ apc = "idle"
    /\ days = 0
    /\ results = <<>>
    /\ total_cost = 0
    /\ services = <<>>
    /\ sorted_services = <<>>
    /\ table_data = <<>>
    /\ current_month_cost = Unbound
    /\ prev_period_cost = 0
    /\ prev_period_total = 0
    /\ trend = NoTrend

\* lines 59-61: the current period's query
QueryCurrent(r) ==
    /\ script = "cost-analysis" /\ Running /\ apc = "current"
    /\ IF Truthy(r)
       THEN /\ results' = r.body
            /\ apc' = "aggregate"
            /\ UNCHANGED sharedVars
       ELSE /\ results' = <<>>
            /\ apc' = "no results"
            /\ Exit(0)
    /\ UNCHANGED <<days, total_cost, services, sorted_services, table_data,
                   current_month_cost, prev_period_cost, prev_period_total, trend>>
    /\ UNCHANGED <<listVars, profVars, creatorVars>>

\* lines 63-74: the reduction and the sort
Aggregate ==
    LET acc == Accumulate([total |-> 0, items |-> <<>>], Flatten(results)) IN
    /\ script = "cost-analysis" /\ Running /\ apc = "aggregate"
    /\ total_cost' = acc.total
    /\ services' = acc.items
    /\ sorted_services' = SortDesc(acc.items)
    /\ apc' = "table"
    /\ UNCHANGED <<days, results, table_data, current_month_cost, prev_period_cost, prev_period_total, trend>>
    /\ UNCHANGED <<sharedVars, listVars, profVars, creatorVars>>

\* lines 77-85: the table; cost/total_cost divides by zero when the total is 0
PrintTable ==
    /\ script = "cost-analysis" /\ Running /\ apc = "table"
    /\ IF sorted_services # <<>> /\ total_cost = 0
       THEN /\ Uncaught("ZeroDivisionError")
            /\ UNCHANGED <<apc, table_data>>
       ELSE /\ table_data' = [i \in 1..Len(sorted_services) |->
                                 Percent(sorted_services[i].cost, total_cost)]
            /\ apc' = "insights"
            /\ UNCHANGED sharedVars
    /\ UNCHANGED <<days, results, total_cost, services, sorted_services,
                   current_month_cost, prev_period_cost, prev_period_total, trend>>
    /\ UNCHANGED <<listVars, profVars, creatorVars>>

\* lines 88-96: insights 1 to 5; sorted_services[0] of an empty list faults.
\* Nothing reads `results` after this point.
Insights ==
    /\ script = "cost-analysis" /\ Running /\ apc = "insights"
    /\ IF sorted_services = <<>>
       THEN /\ Uncaught("IndexError")
            /\ UNCHANGED <<apc, results>>
       ELSE /\ apc' = "prev month"
            /\ results' = <<>>
            /\ UNCHANGED sharedVars
    /\ UNCHANGED <<days, total_cost, services, sorted_services, table_data,
                   current_month_cost, prev_period_cost, prev_period_total, trend>>
    /\ UNCHANGED <<listVars, profVars, creatorVars>>

\* lines 98-104: insight 6, printed and not used again
PrevMonth(r) ==
    /\ script = "cost-analysis" /\ Running /\ apc = "prev month"
    /\ apc' = "month to date"
    /\ UNCHANGED <<days, results, total_cost, services, sorted_services, table_data,
                   current_month_cost, prev_period_cost, prev_period_total, trend>>
    /\ UNCHANGED <<sharedVars, listVars, profVars, creatorVars>>

\* lines 106-111: insight 7
MonthToDate(r) ==
    /\ script = "cost-analysis" /\ Running /\ apc = "month to date"
    /\ current_month_cost' = IF Truthy(r)
                             THEN [bound |-> TRUE, value |-> FirstGroupSum(r.body)]
                             ELSE current_month_cost
    /\ apc' = "forecast"
    /\ UNCHANGED <<days, results, total_cost, services, sorted_services, table_data,
                   prev_period_cost, prev_period_total, trend>>
    /\ UNCHANGED <<sharedVars, listVars, profVars, creatorVars>>

\* lines 113-118: insight 8; the amount is a non-empty string, so `if forecast`
\* holds whenever the call returned.  This is the last read of
\* current_month_cost: its value is dropped, its being bound is kept.
Forecast(f) ==
    /\ script = "cost-analysis" /\ Running /\ apc = "forecast"
    /\ IF ~f.none /\ ~current_month_cost.bound
       THEN /\ Uncaught("UnboundLocalError")
            /\ UNCHANGED <<apc, current_month_cost>>
       ELSE /\ apc' = "year to date"
            /\ current_month_cost' = [current_month_cost EXCEPT !.value = 0]
            /\ UNCHANGED sharedVars
    /\ UNCHANGED <<days, results, total_cost, services, sorted_services, table_data,
                   prev_period_cost, prev_period_total, trend>>
    /\ UNCHANGED <<listVars, profVars, creatorVars>>

\* lines 120-125: insight 9, printed and not used again
YearToDate(r) ==
    /\ script = "cost-analysis" /\ Running /\ apc = "year to date"
    /\ apc' = "trend"
    /\ UNCHANGED <<days, results, total_cost, services, sorted_services, table_data,
                   current_month_cost, prev_period_cost, prev_period_total, trend>>
    /\ UNCHANGED <<sharedVars, listVars, profVars, creatorVars>>

\* line 128 when days < 60: no trend line; analyze_costs returns
TrendSkipped ==
    /\ script = "cost-analysis" /\ Running /\ apc = "trend"
    /\ days < TrendMinDays
    /\ apc' = "done"
    /\ Exit(0)
    /\ UNCHANGED <<days, results, total_cost, services, sorted_services, table_data,
                   current_month_cost, prev_period_cost, prev_period_total, trend>>
    /\ UNCHANGED <<listVars, profVars, creatorVars>>

\* lines 128-134: insight 10; analyze_costs returns
Trend(r) ==
    /\ script = "cost-analysis" /\ Running /\ apc = "trend"
    /\ days >= TrendMinDays
    /\ IF Truthy(r)
       THEN /\ prev_period_cost' = FirstGroupSum(r.body)
            /\ prev_period_total' = Accumulate([total |-> 0, items |-> <<>>], Flatten(r.body)).total
            /\ trend' = TrendLine(cost_change(total_cost, FirstGroupSum(r.body)))
       ELSE UNCHANGED <<prev_period_cost, prev_period_total, trend>>
    /\ apc' = "done"
    /\ Exit(0)
    /\ UNCHANGED <<days, results, total_cost, services, sorted_services, table_data,
                   current_month_cost>>
    /\ UNCHANGED <<listVars, profVars, creatorVars>>

\* (the position is tested before a response is drawn)
CostNext ==
    \/ apc = "current" /\ \E r \in get_cost_and_usage : QueryCurrent(r)
    \/ Aggregate
    \/ PrintTable
    \/ Insights
    \/ apc = "prev month" /\ \E r \in get_cost_and_usage : PrevMonth(r)
    \/ apc = "month to date" /\ \E r \in get_cost_and_usage : MonthToDate(r)
    \/ apc = "forecast" /\ \E f \in get_cost_forecast : Forecast(f)
    \/ apc = "year to date" /\ \E r \in get_cost_and_usage : YearToDate(r)
    \/ TrendSkipped
    \/ apc = "trend" /\ \E r \in get_cost_and_usage : Trend(r)

----------------------------------------------------------------------------
(* aws-ec2-creator.py *)

\* text.split(sep)
RECURSIVE Split(_, _)
Split(text, sep) ==
    LET at == {i \in 1..Len(text) : text[i] = sep} IN
    IF at = {} THEN <<text>>
    ELSE LET i == CHOOSE k \in at : \A j \in at : k <= j
         IN  <<SubSeq(text, 1, i - 1)>> \o Split(SubSeq(text, i + 1, Len(text)), sep)

\* lines 68-85: the ports of the answer that int() accepts, in order
ParsePorts(raw) ==
    LET ingress_ports == IF Strip(raw) = <<>> THEN <<"2","2">> ELSE Strip(raw)
        ports == Split(ingress_ports, ",")
        valid == SelectSeq(ports, LAMBDA port : IntOk(Strip(port)))
    IN  [i \in 1..Len(valid) |-> IntVal(Strip(valid[i]))]

\* line 87: the inner loop ends only with rules to authorize
HasRules_Always(ip_permissions) == TRUE
HasRules(ip_permissions) == ip_permissions # <<>>

RegionNames == <<"us-east-1", "eu-west-1">>
GroupNames == {"web", "db"}
KeyNames == {"k1", "k2"}
KeyPairLists == {<<>>, <<"k1">>, <<"k1", "k2">>}
\* file modes: 0o400 as os.chmod sets it, 0o644 as open() creates a file
KeyFileMode == 256
NewFileMode == 420

NoFile == [exists |-> FALSE, content |-> "", mode |-> 0]
\* the working directory at the start: k1.pem may be left from an earlier run
Directories ==
    {[k \in KeyNames |-> IF k = "k1" THEN f ELSE NoFile] :
        f \in {NoFile,
               [exists |-> TRUE, content |-> "old", mode |-> NewFileMode],
               [exists |-> TRUE, content |-> "old", mode |-> KeyFileMode]}}

\* response['KeyMaterial'] of create_key_pair(KeyName=name)
KeyMaterial(name) == <<"private key of", name>>

\* os.chmod(key_file, 0o400)
chmod_Skipped(file, mode) == file
chmod(file, mode) == [file EXCEPT !.mode = mode]

\* open(key_file, 'w'); f.write(private_key): a new file gets the default
\* mode, an existing one keeps its mode
WriteFile(file, text) ==
    [exists |-> TRUE, content |-> text,
     mode |-> IF file.exists THEN file.mode ELSE NewFileMode]

SelectionInputs(n) == {Render(k) : k \in 0..(n + 1)} \cup {<<"x">>, <<" ">> \o Render(1)}
PortInputs ==
    {<<>>, <<"2","2",","," ","8","0">>, <<"x">>, <<"2","2",",","x">>, <<",">>}
EgressInputs == {<<>>, <<" ">>, <<"4","4","3">>, <<"a","l","l">>}
YesNoInputs == {sY, <<"Y"," ">>, <<"n">>, <<>>}

CreatorInit ==
    /\ script = "ec2-creator"
    /\ cpc = "start"
    /\ cprofiles = <<>>
    /\ cprofile = "none"
    /\ region = "none"
    /\ groups = <<>>
    /\ sg_local = 0
    /\ security_group_id = 0
    /\ retries = 0
    /\ key_pairs = <<>>
    /\ key_name = "none"
    /\ key_source = "none"
    /\ files \in Directories
    /\ files0 = files
    /\ instance_calls = 0

CreatorIdle ==
    /\ cpc = "idle"
    /\ cprofiles = <<>>
    /\ cprofile = "none"
    /\ region = "none"
    /\ groups = <<>>
    /\ sg_local = 0
    /\ security_group_id = 0
    /\ retries = 0
    /\ key_pairs = <<>>
    /\ key_name = "none"
    /\ key_source = "none"
    /\ files = [k \in KeyNames |-> NoFile]
    /\ files0 = files
    /\ instance_calls = 0

\* select_aws_profile, lines 14-17: the profiles are listed as a menu
ListProfiles(available) ==
    /\ script = "ec2-creator" /\ Running /\ cpc = "start"
    /\ cprofiles' = available
    /\ cpc' = "select_profile"
    /\ UNCHANGED <<cprofile, region, groups, sg_local, security_group_id, retries,
                   key_pairs, key_name, key_source, files, files0>>
    /\ UNCHANGED <<instance_calls, sharedVars, listVars, profVars, costVars>>

\* select_aws_profile, lines 19-27: one pass of its `while True`
SelectProfile(raw) ==
    /\ script = "ec2-creator" /\ Running /\ cpc = "select_profile"
    /\ IF IntOk(raw) /\ 1 <= IntVal(raw) /\ IntVal(raw) <= Len(cprofiles)
       THEN /\ cprofile' = cprofiles[IntVal(raw)]
            /\ cpc' = "regions"
       ELSE UNCHANGED <<cprofile, cpc>>
    /\ UNCHANGED <<cprofiles, region, groups, sg_local, security_group_id, retries,
                   key_pairs, key_name, key_source, files, files0>>
    /\ UNCHANGED <<instance_calls, sharedVars, listVars, profVars, costVars>>

\* get_aws_regions: describe_regions is called outside any try
DescribeRegions(ok) ==
    /\ script = "ec2-creator" /\ Running /\ cpc = "regions"
    /\ IF ok
       THEN cpc' = "select_region" /\ UNCHANGED sharedVars
       ELSE Uncaught("ClientError") /\ UNCHANGED cpc
    /\ UNCHANGED <<cprofiles, cprofile, region, groups, sg_local,
                   security_group_id, retries, key_pairs, key_name, key_source,
                   files, files0>>
    /\ UNCHANGED <<instance_calls, listVars, profVars, costVars>>

\* select_aws_region: one pass of its `while True`
SelectRegion(raw) ==
    /\ script = "ec2-creator" /\ Running /\ cpc = "select_region"
    /\ IF IntOk(raw) /\ 1 <= IntVal(raw) /\ IntVal(raw) <= Len(RegionNames)
       THEN /\ region' = RegionNames[IntVal(raw)]
            /\ cpc' = "vpc"
       ELSE UNCHANGED <<region, cpc>>
    /\ UNCHANGED <<cprofiles, cprofile, groups, sg_local,
                   security_group_id, retries, key_pairs, key_name, key_source,
                   files, files0>>
    /\ UNCHANGED <<instance_calls, sharedVars, listVars, profVars, costVars>>

\* line 188: list(vpcs.filter(...))[0], outside any try
DefaultVpc(outcome) ==
    /\ script = "ec2-creator" /\ Running /\ cpc = "vpc"
    /\ CASE outcome = "ok" -> cpc' = "sg_name" /\ UNCHANGED sharedVars
         [] outcome = "empty" -> Uncaught("IndexError") /\ UNCHANGED cpc
         [] OTHER -> Uncaught("ClientError") /\ UNCHANGED cpc
    /\ UNCHANGED <<cprofiles, cprofile, region, groups, sg_local,
                   security_group_id, retries, key_pairs, key_name, key_source,
                   files, files0>>
    /\ UNCHANGED <<instance_calls, listVars, profVars, costVars>>

\* lines 52-64: the name prompt and create_security_group; EC2 refuses a
\* name the VPC already holds
CreateSecurityGroup(name, ok) ==
    LET created == ok /\ \A i \in 1..Len(groups) : groups[i].name # name IN
    /\ script = "ec2-creator" /\ Running /\ cpc = "sg_name"
    /\ IF created
       THEN /\ groups' = Append(groups, [name |-> name, ingress |-> <<>>, egress |-> 0])
            /\ sg_local' = Len(groups) + 1
            /\ cpc' = "ingress"
       ELSE /\ cpc' = "sg_retry"
            /\ UNCHANGED <<groups, sg_local>>
    /\ UNCHANGED <<cprofiles, cprofile, region, security_group_id,
                   retries, key_pairs, key_name, key_source, files, files0>>
    /\ UNCHANGED <<instance_calls, sharedVars, listVars, profVars, costVars>>

\* lines 67-95: one pass of the inbound-rules loop
AuthorizeIngress(raw, ok) ==
    LET ip_permissions == ParsePorts(raw) IN
    /\ script = "ec2-creator" /\ Running /\ cpc = "ingress"
    /\ IF HasRules(ip_permissions)
       THEN IF ok
               THEN /\ groups' = [groups EXCEPT ![sg_local].ingress = ip_permissions]
                    /\ cpc' = "egress"
               ELSE /\ cpc' = "sg_retry"
                    /\ UNCHANGED groups
       ELSE UNCHANGED <<groups, cpc>>
    /\ UNCHANGED <<cprofiles, cprofile, region, sg_local,
                   security_group_id, retries, key_pairs, key_name, key_source,
                   files, files0>>
    /\ UNCHANGED <<instance_calls, sharedVars, listVars, profVars, costVars>>

\* lines 98-116: the outbound rule and the return; int() of a non-number
\* raises ValueError, which `except ClientError` does not catch
AuthorizeEgress(raw, ok) ==
    LET egress_port == Strip(raw) IN
    /\ script = "ec2-creator" /\ Running /\ cpc = "egress"
    /\ IF egress_port = <<>>
       THEN /\ security_group_id' = sg_local
            /\ cpc' = "key_choice"
            /\ UNCHANGED <<groups, sharedVars>>
       ELSE IF ~IntOk(egress_port)
       THEN /\ Uncaught("ValueError")
            /\ UNCHANGED <<groups, security_group_id, cpc>>
       ELSE /\ UNCHANGED sharedVars
            /\ IF ok
               THEN /\ groups' = [groups EXCEPT ![sg_local].egress = IntVal(egress_port)]
                    /\ security_group_id' = sg_local
                    /\ cpc' = "key_choice"
               ELSE /\ cpc' = "sg_retry"
                    /\ UNCHANGED <<groups, security_group_id>>
    /\ UNCHANGED <<cprofiles, cprofile, region, sg_local, retries,
                   key_pairs, key_name, key_source, files, files0>>
    /\ UNCHANGED <<instance_calls, listVars, profVars, costVars>>

\* lines 117-121: "Do you want to try again?"
TryAgain(raw) ==
    LET retry == Strip(Lower(raw)) IN
    /\ script = "ec2-creator" /\ Running /\ cpc = "sg_retry"
    /\ IF retry # sY
       THEN /\ Exit(1)
            /\ UNCHANGED <<cpc, retries>>
       ELSE /\ retries < MaxRetries
            /\ retries' = retries + 1
            /\ cpc' = "sg_name"
            /\ UNCHANGED sharedVars
    /\ UNCHANGED <<cprofiles, cprofile, region, groups, sg_local,
                   security_group_id, key_pairs, key_name, key_source, files, files0>>
    /\ UNCHANGED <<instance_calls, listVars, profVars, costVars>>

\* line 123: "Do you want to use an existing key pair?"
KeyChoice(raw) ==
    LET use_existing == Strip(Lower(raw)) IN
    /\ script = "ec2-creator" /\ Running /\ cpc = "key_choice"
    /\ cpc' = IF use_existing = sY THEN "key_list" ELSE "key_new"
    /\ UNCHANGED <<cprofiles, cprofile, region, groups, sg_local,
                   security_group_id, retries, key_pairs, key_name, key_source,
                   files, files0, instance_calls>>
    /\ UNCHANGED <<instance_calls, sharedVars, listVars, profVars, costVars>>

\* line 126: describe_key_pairs, outside any try
DescribeKeyPairs(ok, found) ==
    /\ script = "ec2-creator" /\ Running /\ cpc = "key_list"
    /\ IF ok
       THEN /\ key_pairs' = found
            /\ cpc' = "key_select"
            /\ UNCHANGED sharedVars
       ELSE /\ Uncaught("ClientError")
            /\ UNCHANGED <<key_pairs, cpc>>
    /\ UNCHANGED <<cprofiles, cprofile, region, groups, sg_local,
                   security_group_id, retries, key_name, key_source, files, files0>>
    /\ UNCHANGED <<instance_calls, listVars, profVars, costVars>>

\* lines 131-139: one pass of the key pair menu
SelectKeyPair(raw) ==
    /\ script = "ec2-creator" /\ Running /\ cpc = "key_select"
    /\ IF IntOk(raw) /\ 1 <= IntVal(raw) /\ IntVal(raw) <= Len(key_pairs)
       THEN /\ key_name' = key_pairs[IntVal(raw)]
            /\ key_source' = "existing"
            /\ cpc' = "instance_type"
       ELSE UNCHANGED <<key_name, key_source, cpc>>
    /\ UNCHANGED <<cprofiles, cprofile, region, groups, sg_local,
                   security_group_id, retries, key_pairs, files, files0>>
    /\ UNCHANGED <<instance_calls, sharedVars, listVars, profVars, costVars>>

\* lines 141-156: create_key_pair, the key file and its mode.  open() of
\* a read-only file fails unless the user may override the mode (root).
CreateKeyPair(name, ok, override) ==
    /\ script = "ec2-creator" /\ Running /\ cpc = "key_new"
    /\ IF ~ok
       THEN /\ cpc' = "key_failed"
            /\ Exit(1)
            /\ UNCHANGED <<key_name, key_source, files>>
       ELSE IF files[name].exists /\ files[name].mode = KeyFileMode /\ ~override
       THEN /\ Uncaught("PermissionError")
            /\ UNCHANGED <<cpc, key_name, key_source, files>>
       ELSE /\ files' = [files EXCEPT ![name] =
                            chmod(WriteFile(files[name], KeyMaterial(name)), KeyFileMode)]
            /\ key_name' = name
            /\ key_source' = "created"
            /\ cpc' = "instance_type"
            /\ UNCHANGED sharedVars
    /\ UNCHANGED <<cprofiles, cprofile, region, groups, sg_local,
                   security_group_id, retries, key_pairs, files0>>
    /\ UNCHANGED <<instance_calls, listVars, profVars, costVars>>

\* lines 195-207: the instance type prompt and describe_images, outside any try
DescribeImages(outcome) ==
    /\ script = "ec2-creator" /\ Running /\ cpc = "instance_type"
    /\ CASE outcome = "ok" -> cpc' = "create_instance" /\ UNCHANGED sharedVars
         [] outcome = "empty" -> Uncaught("IndexError") /\ UNCHANGED cpc
         [] OTHER -> Uncaught("ClientError") /\ UNCHANGED cpc
    /\ UNCHANGED <<cprofiles, cprofile, region, groups, sg_local,
                   security_group_id, retries, key_pairs, key_name, key_source,
                   files, files0>>
    /\ UNCHANGED <<instance_calls, listVars, profVars, costVars>>

\* create_ec2_instance and the rest of main
CreateInstance(outcome) ==
    /\ script = "ec2-creator" /\ Running /\ cpc = "create_instance"
    /\ instance_calls' = instance_calls + 1
    /\ CASE outcome = "ok" -> cpc' = "done" /\ Exit(0)
         [] outcome = "wait failed" -> cpc' = "waiting" /\ Uncaught("WaiterError")
         [] OTHER -> cpc' = "instance_failed" /\ Exit(1)
    /\ UNCHANGED <<cprofiles, cprofile, region, groups, sg_local,
                   security_group_id, retries, key_pairs, key_name, key_source,
                   files, files0>>
    /\ UNCHANGED <<listVars, profVars, costVars>>

CreatorNext ==
    \/ cpc = "start" /\ \E available \in AvailableProfiles : ListProfiles(available)
    \/ cpc = "select_profile" /\ \E raw \in SelectionInputs(MaxProfiles) : SelectProfile(raw)
    \/ cpc = "regions" /\ \E ok \in BOOLEAN : DescribeRegions(ok)
    \/ cpc = "select_region" /\ \E raw \in SelectionInputs(Len(RegionNames)) : SelectRegion(raw)
    \/ cpc = "vpc" /\ \E outcome \in {"ok", "empty", "ClientError"} : DefaultVpc(outcome)
    \/ cpc = "sg_name" /\ \E name \in GroupNames, ok \in BOOLEAN : CreateSecurityGroup(name, ok)
    \/ cpc = "ingress" /\ \E raw \in PortInputs, ok \in BOOLEAN : AuthorizeIngress(raw, ok)
    \/ cpc = "egress" /\ \E raw \in EgressInputs, ok \in BOOLEAN : AuthorizeEgress(raw, ok)
    \/ cpc = "sg_retry" /\ \E raw \in YesNoInputs : TryAgain(raw)
    \/ cpc = "key_choice" /\ \E raw \in YesNoInputs : KeyChoice(raw)
    \/ cpc = "key_list" /\ \E ok \in BOOLEAN, found \in KeyPairLists : DescribeKeyPairs(ok, found)
    \/ cpc = "key_select" /\ \E raw \in SelectionInputs(2) : SelectKeyPair(raw)
    \/ cpc = "key_new" /\ \E name \in KeyNames, ok \in BOOLEAN, override \in BOOLEAN :
                             CreateKeyPair(name, ok, override)
    \/ cpc = "instance_type" /\ \E outcome \in {"ok", "empty", "ClientError"} : DescribeImages(outcome)
    \/ cpc = "create_instance" /\
         \E outcome \in {"ok", "create failed", "wait failed", "load failed"} : CreateInstance(outcome)

----------------------------------------------------------------------------
vars == <<script, status, exitCode, exc, lpc, profiles, todo, profile, managed, choice, req,
          ppc, config, credentials, cfgLeft, credLeft, lp_profiles, stsCalls,
          apc, days, results, total_cost, services, sorted_services, table_data,
          current_month_cost, prev_period_cost, prev_period_total, trend,
          cpc, cprofiles, cprofile, region, groups, sg_local,
          security_group_id, retries, key_pairs, key_name, key_source,
          files, files0, instance_calls>>

SharedInit ==
    /\ status = "running"
    /\ exitCode = -1
    /\ exc = "none"

Init ==
    /\ SharedInit
    /\ \/ ListInit /\ ProfilesIdle /\ CostIdle /\ CreatorIdle
       \/ ProfilesInit /\ ListIdle /\ CostIdle /\ CreatorIdle
       \/ CostInit /\ ListIdle /\ ProfilesIdle /\ CreatorIdle
       \/ CreatorInit /\ ListIdle /\ ProfilesIdle /\ CostIdle

Next ==
    \/ ListNext
    \/ ProfilesNext
    \/ CostNext
    \/ CreatorNext

Spec == Init /\ [][Next]_vars

----------------------------------------------------------------------------
(* Properties *)

\* the answer reads y or Y once the whitespace around it is set aside
IsYesAnswer(raw) ==
    \E i \in 1..Len(raw) :
        /\ raw[i] \in {"y", "Y"}
        /\ \A j \in (1..Len(raw)) \ {i} : raw[j] \in White

TerminateCalls == {i \in 1..Len(req.calls) : req.calls[i].kind = "terminate_instances"}

\* C1, as stated: terminate_instances is called only after the confirmation
\* prompt was answered with exactly "y"; any other answer makes no API call.
C1_TerminateOnlyAfterLiteralY ==
    script = "ec2-list" =>
        /\ TerminateCalls # {} => req.asked /\ req.rawConfirm = sY
        /\ req.asked /\ req.rawConfirm # sY => req.calls = <<>>

\* C1, amended: terminate_instances is called only after the confirmation
\* prompt was answered with "y" in either case, whitespace around it ignored;
\* any other answer makes no API call for that request.
C1_TerminateOnlyAfterYes ==
    script = "ec2-list" =>
        /\ TerminateCalls # {} => req.asked /\ IsYesAnswer(req.rawConfirm)
        /\ req.asked /\ ~IsYesAnswer(req.rawConfirm) => req.calls = <<>>

C1_Witness ==
    /\ script = "ec2-list" /\ lpc = "action" /\ req.asked
    /\ req.calls = <<ApiCall("terminate_instances", profile, req.instance_id)>>

VerbKind(verb) ==
    CASE verb = sStart -> "start_instances"
      [] verb = sStop -> "stop_instances"
      [] verb = sReboot -> "reboot_instances"
      [] verb = sTerminate -> "terminate_instances"

\* C6: a request whose verb (as typed, case and surrounding whitespace set
\* aside) is start, stop, reboot or terminate makes exactly one API call, of
\* the verb's kind and for the instance ID that was entered, terminate only
\* once confirmed; a line that is none of these verbs makes no API call, and
\* no call is made before the request's prompts were answered.
C6_OneCallPerVerb ==
    script = "ec2-list" =>
        /\ req.action \notin Verbs => req.calls = <<>>
        /\ lpc \in {"id", "confirm"} => req.calls = <<>>
        /\ lpc = "action" /\ req.action \in Verbs \ {sTerminate} =>
              /\ req.instance_id = Strip(req.rawId)
              /\ req.calls = <<[kind |-> VerbKind(req.action), profile |-> profile,
                                id |-> req.instance_id]>>
        /\ lpc = "action" /\ req.action = sTerminate =>
              req.calls = IF IsYesAnswer(req.rawConfirm)
                          THEN <<[kind |-> "terminate_instances", profile |-> profile,
                                  id |-> req.instance_id]>>
                          ELSE <<>>

C6_Witness ==
    /\ script = "ec2-list" /\ lpc = "action"
    /\ req.action = sStop /\ req.rawAction # sStop
    /\ Len(req.calls) = 1 /\ req.calls[1].kind = "stop_instances"

\* the sum of the costs of every group of every bucket
RECURSIVE SumCosts(_)
SumCosts(gs) == IF gs = <<>> THEN 0 ELSE Head(gs).cost + SumCosts(Tail(gs))

RECURSIVE SumSeq(_)
SumSeq(xs) == IF xs = <<>> THEN 0 ELSE Head(xs) + SumSeq(Tail(xs))

\* C2: for every non-empty list of billing records the total is the sum of
\* the record costs and of the per-service amounts, and the table is printed
\* with percentages that add up to 100% within half a unit of the last
\* printed digit per row.
C2_TotalAndPercentages ==
    script = "cost-analysis" /\ apc \in {"table", "insights"} =>
        /\ total_cost = SumCosts(Flatten(results))
        /\ total_cost = SumCosts(services)
        /\ apc = "table" => status = "running"
        /\ apc = "insights" /\ sorted_services # <<>> =>
              2 * Abs(SumSeq(table_data) - 10000) <= Len(table_data)

\* C3, as stated: the trend is (current - previous) / previous x 100, and a
\* previous cost of exactly zero gives "Decrease" of 0%.
C3_TrendFormulaUnlessZero ==
    script = "cost-analysis" /\ apc = "done" /\ trend.printed =>
        IF prev_period_cost # 0
        THEN /\ trend.label = IF (total_cost - prev_period_cost) * prev_period_cost > 0
                              THEN "Increase" ELSE "Decrease"
             /\ 2 * Abs(trend.shown * Abs(prev_period_cost)
                        - Abs(total_cost - prev_period_cost) * 10000)
                    <= Abs(prev_period_cost)
        ELSE trend.label = "Decrease" /\ trend.shown = 0

\* C3, amended: the trend is (current - previous) / previous x 100 when the
\* previous cost is positive, and "Decrease" of 0% when it is zero or negative.
C3_TrendFormulaWhenPositive ==
    script = "cost-analysis" /\ apc = "done" /\ trend.printed =>
        IF prev_period_cost > 0
        THEN /\ trend.label = IF total_cost > prev_period_cost
                              THEN "Increase" ELSE "Decrease"
             /\ 2 * Abs(trend.shown * prev_period_cost
                        - Abs(total_cost - prev_period_cost) * 10000)
                    <= prev_period_cost
        ELSE trend.label = "Decrease" /\ trend.shown = 0

C3_Witness ==
    /\ script = "cost-analysis" /\ apc = "done" /\ trend.printed
    /\ prev_period_cost = 2 /\ total_cost = 3
    /\ trend.label = "Increase" /\ trend.shown = 5000

\* the config sections that name profile n: [profile n], or [n] itself
NamedBy(n) == {s \in config : s.name = sProfilePrefix \o n \/ s.name = n}
EntriesFor(n) == {i \in 1..Len(lp_profiles) : lp_profiles[i].Profile = n}
ProfilesReturned == ppc \in {"table", "none found"}

\* C4: no profile name appears twice in the list; a name that both files
\* hold has exactly one entry, and when one config section names it and
\* gives a region, the entry carries that region.
C4_OneEntryWithConfigRegion ==
    script = "list-profiles" =>
        /\ \A i, j \in 1..Len(lp_profiles) :
              lp_profiles[i].Profile = lp_profiles[j].Profile => i = j
        /\ ProfilesReturned =>
              \A n \in credentials : NamedBy(n) # {} =>
                  /\ Cardinality(EntriesFor(n)) = 1
                  /\ \A s \in NamedBy(n) :
                        NamedBy(n) = {s} /\ s.region # NoKey =>
                            \A i \in EntriesFor(n) : lp_profiles[i].Region = s.region

C4_Witness ==
    /\ script = "list-profiles" /\ ppc = "table"
    /\ sDev \in credentials
    /\ NamedBy(sDev) = {[name |-> sProfilePrefix \o sDev, region |-> "eu-west-1"]}
    /\ \E i \in EntriesFor(sDev) : lp_profiles[i].Region = "eu-west-1"

\* the profiles a config file names: [profile X] names X, [default] names default
ConfigProfileNames ==
    {RemovePrefix(s.name) : s \in {t \in config : StartsWithProfile(t.name)}}
        \cup {s.name : s \in {t \in config : t.name = sDefault}}

\* C5: the names returned are those of the config file's profiles and of the
\* credentials file's sections together, and each entry took one
\* get_account_id call.
C5_UnionOfBothFiles ==
    script = "list-profiles" /\ ProfilesReturned =>
        /\ {lp_profiles[i].Profile : i \in 1..Len(lp_profiles)}
              = ConfigProfileNames \cup credentials
        /\ stsCalls = [i \in 1..Len(lp_profiles) |-> lp_profiles[i].Profile]

\* C7: no script ends with an uncaught ClientError.
C7_ClientErrorsCaught ==
    status = "uncaught" => exc # "ClientError"

\* C8: with no profile found (aws-list-profiles), an invalid selection
\* (aws-ec2-list) or an empty profile menu (aws-ec2-creator) the script has
\* exited with a non-zero status.
C8_SetupFailureExitsNonZero ==
    /\ script = "list-profiles" /\ ppc = "none found" => exitCode # 0
    /\ script = "ec2-list" /\ lpc = "invalid" => exitCode # 0
    /\ script = "ec2-creator" /\ cpc # "start" /\ cprofiles = <<>> =>
          status = "exited" /\ exitCode # 0

\* C9: once a new key pair's name is returned, <key_name>.pem holds its key
\* material with mode 0400; when create_key_pair fails, no file was written
\* and the script has exited with status 1.
C9_KeyFileWrittenRestricted ==
    script = "ec2-creator" =>
        /\ key_source = "created" =>
              files[key_name] = [exists |-> TRUE, content |-> KeyMaterial(key_name),
                                 mode |-> KeyFileMode]
        /\ cpc = "key_failed" =>
              files = files0 /\ status = "exited" /\ exitCode = 1

C9_Witness ==
    /\ script = "ec2-creator" /\ key_source = "created"
    /\ ~files0[key_name].exists
    /\ files[key_name].mode = KeyFileMode

\* C10: create_instances is called at most once, and each step of the wizard
\* is taken only after the ones before it: a region only with a profile, a
\* security group only with a region and with an inbound rule authorized on
\* it, a key pair name only with a security group, create_instances only
\* with a key pair name; a run that ended before the last step created nothing.
C10_LinearWizard ==
    script = "ec2-creator" =>
        /\ instance_calls <= 1
        /\ region # "none" => cprofile # "none"
        /\ security_group_id # 0 =>
              /\ region # "none"
              /\ security_group_id \in 1..Len(groups)
              /\ groups[security_group_id].ingress # <<>>
        /\ key_name # "none" => security_group_id # 0
        /\ instance_calls > 0 => key_name # "none"
        /\ status # "running" /\ cpc \notin {"done", "waiting", "instance_failed"} =>
              instance_calls = 0

C10_Witness ==
    /\ script = "ec2-creator" /\ cpc = "done" /\ instance_calls = 1
    /\ status = "exited" /\ exitCode = 0

\* C11: once the current period's query returned a non-empty list, the
\* percentage column and the most/least expensive lookup complete: the run
\* never ends in a division by zero or an index fault.
C11_AggregationNeverFaults ==
    script = "cost-analysis" /\ status = "uncaught" =>
        exc \notin {"ZeroDivisionError", "IndexError"}

\* C12: the previous-period cost the trend compares against is that
\* period's response summed over every group of every bucket, as the current
\* total is; when that sum equals the current total the trend shown is 0%.
C12_PreviousPeriodSummedLikeCurrent ==
    script = "cost-analysis" /\ trend.printed =>
        /\ prev_period_cost = prev_period_total
        /\ prev_period_total = total_cost => trend.shown = 0

\* C13: the forecast line reads the month-to-date cost only when line 110
\* assigned it: no run ends reading the unassigned local.
C13_ForecastOnlyWithMonthToDate ==
    script = "cost-analysis" /\ status = "uncaught" => exc # "UnboundLocalError"

\* C14: across the "try again" loop a run creates at most one security group.
C14_AtMostOneSecurityGroup ==
    script = "ec2-creator" => Len(groups) <= 1

\* C15: a profile is managed only when the selection is 'all' (every listed
\* profile, in order) or a number k with 1 <= k <= N (the k-th profile only).
C15_OnlySelectedProfileManaged ==
    script = "ec2-list" /\ managed # <<>> =>
        \/ /\ choice = sAll
           /\ Len(managed) <= Len(profiles)
           /\ managed = SubSeq(profiles, 1, Len(managed))
        \/ /\ IntOk(choice)
           /\ IntVal(choice) \in 1..Len(profiles)
           /\ managed = <<profiles[IntVal(choice)]>>

====
